---------------------------- MODULE Spec2Model ----------------------------
(***************************************************************************)
(* Audio steganography (src/app.py): LSB hiding and echo hiding of a text  *)
(* message in 16-bit PCM samples.                                          *)
(*                                                                         *)
(* A WAV file is modelled by its sequence of signed 16-bit samples (the    *)
(* container parameters are threaded through unchanged by the code and are *)
(* left out).  A text is a sequence of character codes; a bit string is a  *)
(* sequence of 0/1.  Sequences are 1-based here and 0-based in the source: *)
(* Slice(s, a, b) is the source's s[a:b].                                  *)
(***************************************************************************)
EXTENDS Integers, Sequences, FiniteSets

VARIABLES
    technique,    \* the selected technique: "LSB" or "Echo Hiding"
    audio_file,   \* encode tab: samples of the uploaded WAV file
    message,      \* encode tab: the secret message (character codes)
    d0, d1,       \* encode tab: echo delays
    alpha,        \* encode tab: echo strength, in units of 1/AlphaDen
    stego,        \* what the encoder returned: None or Some(samples)
    orig_file,    \* decode tab: samples of the uploaded original audio
    stego_file,   \* decode tab: samples of the uploaded stego audio
    d0_dec,       \* decode tab: delay for bit 0
    d1_dec,       \* decode tab: delay for bit 1
    result,       \* what the decoder returned: the decoded text, and for the
                  \* echo decoder the diagnostic entries and the decided
                  \* bits, or that it raised an exception
    pc            \* "encode", "encoded", "decode", "decoded"

vars == <<technique, audio_file, message, d0, d1, alpha, stego, orig_file, stego_file,
          d0_dec, d1_dec, result, pc>>

-----------------------------------------------------------------------------
(* Bounds of the model.                                                    *)

\* longest message drawn over the whole LSB alphabet
MaxMsgLen == 3
\* longest LSB sample buffer
MaxLsbSamples == 65
\* most samples cut from the end of a file uploaded to the echo decoder
MaxCut == 1
\* samples per embedded bit in the echo specification (the source's
\* chunk_size, 8192, is a parameter of the operators below)
ChunkSize == 2
\* largest echo delay drawn
MaxDelay == 3

-----------------------------------------------------------------------------
(* Program constants.                                                      *)

\* chunk_size = 8192
chunk_size == 8192
\* np.clip(samples, -32768, 32767)
ClipLo == -32768
ClipHi == 32767
\* ord("#"), the character of the terminator "###"
Hash == 35
\* float32 keeps 24 significant bits
F32Mantissa == 16777216
\* denominator of the fixed-point representation of a float32 value: a float
\* x is the integer x * AlphaDen (alpha and every sum of samples and echoes
\* drawn here are multiples of 1/AlphaDen, so nothing is rounded)
AlphaDen == 4

\* "###"
Terminator == <<Hash, Hash, Hash>>

\* "No hidden message found"
NoHiddenMessageFound ==
    <<78, 111, 32, 104, 105, 100, 100, 101, 110, 32, 109, 101, 115, 115, 97,
      103, 101, 32, 102, 111, 117, 110, 100>>

\* nothing decoded yet
NoResult == [message |-> <<>>, debug_info |-> <<>>, bits |-> <<>>, raised |-> FALSE]

\* the encoder's "return None" and "return write_wav_bytes(...)"
None == [none |-> TRUE, samples |-> <<>>]
Some(s) == [none |-> FALSE, samples |-> s]

-----------------------------------------------------------------------------
(* Python sequences.                                                       *)

Min(a, b) == IF a < b THEN a ELSE b
Max(a, b) == IF a > b THEN a ELSE b

\* s[a:b] for 0 <= a: clipped to the sequence, empty when b <= a
Slice(s, a, b) ==
    LET hi == Min(b, Len(s))
    IN  IF hi <= a THEN <<>> ELSE [k \in 1..(hi - a) |-> s[a + k]]

\* s.endswith(t)
EndsWith(s, t) ==
    /\ Len(s) >= Len(t)
    /\ \A k \in 1..Len(t) : s[Len(s) - Len(t) + k] = t[k]

\* the binary digits of n > 0, most significant first
RECURSIVE BinDigits(_)
BinDigits(n) == IF n = 0 THEN <<>> ELSE Append(BinDigits(n \div 2), n % 2)

\* format(c, "08b"): the binary digits, zero-padded on the left to 8
Format08b(c) ==
    LET ds == BinDigits(c)
    IN  IF Len(ds) >= 8 THEN ds ELSE [k \in 1..(8 - Len(ds)) |-> 0] \o ds

\* "".join(format(ord(c), "08b") for c in message)
RECURSIVE MessageBits(_)
MessageBits(msg) ==
    IF msg = <<>> THEN <<>> ELSE Format08b(Head(msg)) \o MessageBits(Tail(msg))

\* int("".join(byte), 2)
RECURSIVE IntBase2(_)
IntBase2(byte) ==
    IF byte = <<>> THEN 0
    ELSE 2 * IntBase2(SubSeq(byte, 1, Len(byte) - 1)) + byte[Len(byte)]

-----------------------------------------------------------------------------
(* WAV container.                                                          *)

\* np.frombuffer(frames, dtype=np.int16).astype(np.float32): every int16 is
\* a float32; the float x is represented by x * AlphaDen
read_wav_bytes(audio_bytes) ==
    [k \in 1..Len(audio_bytes) |-> audio_bytes[k] * AlphaDen]

\* a C cast of a float to an integer truncates towards zero
TruncToInt(x) == IF x >= 0 THEN x \div AlphaDen ELSE -((-x) \div AlphaDen)

\* np.clip(x, -32768, 32767)
Clip(x) ==
    IF x < ClipLo * AlphaDen THEN ClipLo * AlphaDen
    ELSE IF x > ClipHi * AlphaDen THEN ClipHi * AlphaDen ELSE x

\* np.int16(np.clip(samples, -32768, 32767)) of float samples
write_wav_bytes(samples) ==
    [k \in 1..Len(samples) |-> TruncToInt(Clip(samples[k]))]

-----------------------------------------------------------------------------
(* LSB hiding.                                                             *)

\* samples.astype(np.int16): the floats read from a file are whole numbers
AsInt16(samples) == [k \in 1..Len(samples) |-> TruncToInt(samples[k])]

\* .view(np.uint16): the two's-complement bit pattern of an int16
ViewUint16(s) == s % 65536

\* .view(np.int16) of a uint16
ViewInt16(u) == IF u >= 32768 THEN u - 65536 ELSE u

\* the slip flat[i] | int(b): the old lowest bit is not cleared
SetLsb_NoMask(u, b) == IF u % 2 = 1 THEN u ELSE u + b

\* (flat[i] & 0xFFFE) | int(b)
SetLsb(u, b) == (u - (u % 2)) + b

\* the slip len(bits) >= len(flat)
LsbTooLarge_AtLeast(nbits, nsamples) == nbits >= nsamples

\* len(bits) > len(flat)
LsbTooLarge(nbits, nsamples) == nbits > nsamples

\* for i, b in enumerate(bits): flat[i] = (flat[i] & 0xFFFE) | int(b)
EmbedBits(flat, mbits) ==
    [k \in 1..Len(flat) |->
        IF k <= Len(mbits) THEN SetLsb(flat[k], mbits[k]) ELSE flat[k]]

\* flat is samples.view(np.uint16), mbits the bits of message + "###"
EncodeLsbArrays(flat, mbits) ==
    IF LsbTooLarge(Len(mbits), Len(flat)) THEN None
    ELSE Some(write_wav_bytes(
             [k \in 1..Len(flat) |->
                 ViewInt16(EmbedBits(flat, mbits)[k]) * AlphaDen]))

encode_lsb(audio_bytes, msg) ==
    EncodeLsbArrays(
        [k \in 1..Len(audio_bytes) |->
            ViewUint16(AsInt16(read_wav_bytes(audio_bytes))[k])],
        MessageBits(msg \o Terminator))

\* the loop of decode_lsb from bit offset i with the characters read so far
RECURSIVE DecodeLsbLoop(_, _, _)
DecodeLsbLoop(lsbs, i, chars) ==
    IF i >= Len(lsbs) THEN NoHiddenMessageFound
    ELSE LET byte == Slice(lsbs, i, i + 8)
         IN  IF Len(byte) < 8 THEN NoHiddenMessageFound
             ELSE LET char_val == IntBase2(byte)
                  IN  IF char_val = 0 THEN NoHiddenMessageFound
                      ELSE LET cs2 == Append(chars, char_val)
                           IN  IF EndsWith(cs2, Terminator)
                               THEN SubSeq(cs2, 1, Len(cs2) - 3)
                               ELSE DecodeLsbLoop(lsbs, i + 8, cs2)

decode_lsb(stego_bytes) ==
    LET samples == AsInt16(read_wav_bytes(stego_bytes))
        lsbs    == [k \in 1..Len(samples) |-> ViewUint16(samples[k]) % 2]
    IN  DecodeLsbLoop(lsbs, 0, <<>>)

-----------------------------------------------------------------------------
(* float32 arithmetic on whole numbers.                                    *)

Abs(x) == IF x < 0 THEN -x ELSE x

\* the spacing of the float32 values around a >= 0
RECURSIVE Ulp(_)
Ulp(a) == IF a < F32Mantissa THEN 1 ELSE 2 * Ulp(a \div 2)

\* x rounded to the nearest float32 (ties to the even mantissa).  Scaling by
\* a power of two commutes with the rounding, so it applies to fixed-point
\* representations as it does to whole numbers.
RoundF32(x) ==
    LET a == Abs(x)
        u == Ulp(a)
        q == a \div u
        r == a % u
        up == (2 * r > u) \/ (2 * r = u /\ q % 2 = 1)
        m == (IF up THEN q + 1 ELSE q) * u
    IN  IF x < 0 THEN -m ELSE m

\* numpy broadcasting of two 1-d arrays: equal lengths, or one of length 1
Broadcastable(a, b) == Len(a) = Len(b) \/ Len(a) = 1 \/ Len(b) = 1
BroadcastLen(a, b) == IF Len(a) = 1 THEN Len(b) ELSE Len(a)
Elem(a, k) == IF Len(a) = 1 THEN a[1] ELSE a[k]

\* a - b of two float32 arrays
SubArrays(a, b) ==
    [k \in 1..BroadcastLen(a, b) |-> RoundF32(Elem(a, k) - Elem(b, k))]

\* a * b of two float32 arrays holding whole numbers; the products are kept
\* in units of 1 
MulArrays(a, b) ==
    [k \in 1..BroadcastLen(a, b) |->
        RoundF32(TruncToInt(Elem(a, k)) * TruncToInt(Elem(b, k)))]

\* res += a[k] for the 0-based indices lo .. hi - 1, in float32
RECURSIVE SumRun(_, _, _, _)
SumRun(a, lo, hi, res) ==
    IF lo >= hi THEN res
    ELSE SumRun(a, lo + 1, hi, RoundF32(res + a[lo + 1]))

\* accumulator j of the unrolled loop of np.sum: a[off + j], then
\* += a[off + i + j] for i = 8, 16, ... below stop
RECURSIVE SumLane(_, _, _, _, _, _)
SumLane(a, off, j, i, stop, r) ==
    IF i >= stop THEN r
    ELSE SumLane(a, off, j, i + 8, stop, RoundF32(r + a[off + i + j + 1]))

\* r[j] of the unrolled loop over the n elements from off
SumAcc(a, off, n, j) ==
    SumLane(a, off, j, 8, n - (n % 8), a[off + j + 1])

\* ((r[0] + r[1]) + (r[2] + r[3])) + ((r[4] + r[5]) + (r[6] + r[7]))
SumTree(r0, r1, r2, r3, r4, r5, r6, r7) ==
    RoundF32(RoundF32(RoundF32(r0 + r1) + RoundF32(r2 + r3))
             + RoundF32(RoundF32(r4 + r5) + RoundF32(r6 + r7)))

\* the first half of a block of more than 128 elements: n / 2 rounded down
\* to a multiple of 8
SumHalf(n) == (n \div 2) - ((n \div 2) % 8)

\* the pairwise summation np.sum uses on a contiguous float32 array, for the
\* n elements from the 0-based index off: a running sum below 8 elements,
\* eight accumulators up to 128 elements, two halves above
RECURSIVE PairwiseSum(_, _, _)
PairwiseSum(a, off, n) ==
    IF n < 8 THEN SumRun(a, off, off + n, 0)
    ELSE IF n <= 128
    THEN SumRun(a, off + (n - (n % 8)), off + n,
             SumTree(SumAcc(a, off, n, 0), SumAcc(a, off, n, 1),
                     SumAcc(a, off, n, 2), SumAcc(a, off, n, 3),
                     SumAcc(a, off, n, 4), SumAcc(a, off, n, 5),
                     SumAcc(a, off, n, 6), SumAcc(a, off, n, 7)))
    ELSE RoundF32(PairwiseSum(a, off, SumHalf(n))
                  + PairwiseSum(a, off + SumHalf(n), n - SumHalf(n)))

\* np.sum of a float32 array
SumF32(a) == PairwiseSum(a, 0, Len(a))

-----------------------------------------------------------------------------
(* Echo hiding: encode.                                                    *)

\* the slip len(bits) * chunk_size + max_delay >= len(samples)
EchoTooLarge_AtLeast(nbits, cs, max_delay, nsamples) ==
    nbits * cs + max_delay >= nsamples

\* the slip len(bits) * chunk_size > len(samples): the delay is forgotten
EchoTooLarge_NoDelay(nbits, cs, max_delay, nsamples) ==
    nbits * cs > nsamples

\* len(bits) * chunk_size + max_delay > len(samples)
EchoTooLarge(nbits, cs, max_delay, nsamples) ==
    nbits * cs + max_delay > nsamples

\* end = min(start + chunk_size, len(samples) - max_delay)
ChunkEnd(start, cs, max_delay, nsamples) ==
    Min(start + cs, nsamples - max_delay)

\* delay = d1 if bit == "1" else d0
BitDelay(bit, dl0, dl1) == IF bit = 1 THEN dl1 ELSE dl0

\* alpha * chunk[j], alpha given in units of 1/AlphaDen
Attenuate(al, x) == RoundF32((al * x) \div AlphaDen)

\* the slip out[echo_start + 1 : echo_end + 1] += alpha * chunk
AddEcho_OffByOne(out, echo_start, al, chunk) ==
    [k \in 1..Len(out) |->
        IF echo_start + 1 < k /\ k <= echo_start + 1 + Len(chunk)
        THEN RoundF32(out[k] + Attenuate(al, chunk[k - echo_start - 1]))
        ELSE out[k]]

\* out[echo_start:echo_end] += alpha * chunk
AddEcho(out, echo_start, al, chunk) ==
    [k \in 1..Len(out) |->
        IF echo_start < k /\ k <= echo_start + Len(chunk)
        THEN RoundF32(out[k] + Attenuate(al, chunk[k - echo_start]))
        ELSE out[k]]

\* the loop of encode_echo_simple from bit index i
RECURSIVE EchoLoop(_, _, _, _, _, _, _, _)
EchoLoop(out, samples, mbits, i, dl0, dl1, al, cs) ==
    IF i >= Len(mbits) THEN out
    ELSE LET max_delay == Max(dl0, dl1)
             start == i * cs
             end   == ChunkEnd(start, cs, max_delay, Len(samples))
         IN  IF end <= start THEN out
             ELSE LET delay == BitDelay(mbits[i + 1], dl0, dl1)
                      chunk == Slice(samples, start, end)
                      echo_start == start + delay
                      echo_end   == echo_start + Len(chunk)
                      out2 == IF echo_end <= Len(out)
                              THEN AddEcho(out, echo_start, al, chunk)
                              ELSE out
                  IN  EchoLoop(out2, samples, mbits, i + 1, dl0, dl1, al, cs)

\* samples is the array read from the file, mbits the bits of
\* message + "###"
EncodeEchoArrays(samples, mbits, dl0, dl1, al, cs) ==
    IF EchoTooLarge(Len(mbits), cs, Max(dl0, dl1), Len(samples)) THEN None
    ELSE Some(write_wav_bytes(
             EchoLoop(samples, samples, mbits, 0, dl0, dl1, al, cs)))

\* cs is the source's chunk_size
encode_echo_simple(audio_bytes, msg, dl0, dl1, al, cs) ==
    EncodeEchoArrays(read_wav_bytes(audio_bytes),
                     MessageBits(msg \o Terminator), dl0, dl1, al, cs)

-----------------------------------------------------------------------------
(* Echo hiding: decode.                                                    *)

\* the slip (min(len(original), len(stego)) - max_delay - 1) // chunk_size
NumChunks_OneShort(norig, nstego, max_delay, cs) ==
    (Min(norig, nstego) - max_delay - 1) \div cs

\* num_chunks = (min(len(original), len(stego)) - max_delay) // chunk_size
NumChunks(norig, nstego, max_delay, cs) ==
    (Min(norig, nstego) - max_delay) \div cs

\* np.abs(np.sum(orig_chunk * echo[d : d + len(orig_chunk)]))
Correlation(orig_chunk, echo, d) ==
    Abs(SumF32(MulArrays(orig_chunk, Slice(echo, d, d + Len(orig_chunk)))))

\* the slip bit = "1" if corr_d1 >= corr_d0 else "0"
Decide_TieIsOne(i, corr_d0, corr_d1) ==
    [chunk |-> i, corr_d0 |-> corr_d0, corr_d1 |-> corr_d1,
     bit |-> IF corr_d1 >= corr_d0 THEN 1 ELSE 0]

\* bit = "1" if corr_d1 > corr_d0 else "0", and the diagnostic entry of chunk
\* i (the source formats the same four values into a string)
Decide(i, corr_d0, corr_d1) ==
    [chunk |-> i, corr_d0 |-> corr_d0, corr_d1 |-> corr_d1,
     bit |-> IF corr_d1 > corr_d0 THEN 1 ELSE 0]

\* bits.append(bit); debug_info.append(...)
Record(acc, entry) ==
    [acc EXCEPT !.bits = Append(@, entry.bit), !.debug_info = Append(@, entry)]

\* corr_d0, corr_d1 and the decision for chunk i; the products raise when
\* the shapes do not broadcast
DecideChunk(acc, i, orig_chunk, echo, dl0, dl1) ==
    IF \/ ~Broadcastable(orig_chunk, Slice(echo, dl0, dl0 + Len(orig_chunk)))
       \/ ~Broadcastable(orig_chunk, Slice(echo, dl1, dl1 + Len(orig_chunk)))
    THEN [acc EXCEPT !.raised = TRUE]
    ELSE Record(acc, Decide(i, Correlation(orig_chunk, echo, dl0),
                               Correlation(orig_chunk, echo, dl1)))

\* echo = stego[start : end + max_delay] - original[start : end + max_delay]
\* for the two windows sw and ow, then the decision; the subtraction raises
\* when the shapes do not broadcast
ChunkStep(acc, i, sw, ow, orig_chunk, dl0, dl1) ==
    IF ~Broadcastable(sw, ow) THEN [acc EXCEPT !.raised = TRUE]
    ELSE DecideChunk(acc, i, orig_chunk, SubArrays(sw, ow), dl0, dl1)

\* if end + max_delay > min(len(original), len(stego)): break
PastEnd(end, max_delay, norig, nstego) == end + max_delay > Min(norig, nstego)

\* the chunk loop of decode_echo_simple from chunk i; acc holds the bits and
\* diagnostics so far
RECURSIVE EchoDecideLoop(_, _, _, _, _, _, _, _)
EchoDecideLoop(original, stg, i, num_chunks, dl0, dl1, cs, acc) ==
    IF i >= num_chunks \/ acc.raised THEN acc
    ELSE IF PastEnd(i * cs + cs, Max(dl0, dl1), Len(original), Len(stg)) THEN acc
    ELSE EchoDecideLoop(original, stg, i + 1, num_chunks, dl0, dl1, cs,
             ChunkStep(acc, i,
                 Slice(stg, i * cs, (i * cs + cs) + Max(dl0, dl1)),
                 Slice(original, i * cs, (i * cs + cs) + Max(dl0, dl1)),
                 Slice(original, i * cs, i * cs + cs),
                 dl0, dl1))

\* the character loop of decode_echo_simple from bit offset i
RECURSIVE DecodeEchoChars(_, _, _)
DecodeEchoChars(dbits, i, chars) ==
    IF i >= Len(dbits) THEN NoHiddenMessageFound
    ELSE LET byte == Slice(dbits, i, i + 8)
         IN  IF Len(byte) < 8 THEN NoHiddenMessageFound
             ELSE LET char_val == IntBase2(byte)
                  IN  IF char_val = 0 \/ char_val > 127
                      THEN NoHiddenMessageFound
                      ELSE LET cs2 == Append(chars, char_val)
                           IN  IF EndsWith(cs2, Terminator)
                               THEN SubSeq(cs2, 1, Len(cs2) - 3)
                               ELSE DecodeEchoChars(dbits, i + 8, cs2)

\* the character loop on the decided bits, and the returned triple; raised
\* says that an exception was raised instead
EchoResult(acc) ==
    [message    |-> IF acc.raised THEN <<>>
                    ELSE DecodeEchoChars(acc.bits, 0, <<>>),
     debug_info |-> acc.debug_info,
     bits       |-> acc.bits,
     raised     |-> acc.raised]

\* original and stg are the two sample arrays read from the files
DecodeEchoArrays(original, stg, dl0, dl1, cs) ==
    EchoResult(EchoDecideLoop(original, stg, 0,
                   NumChunks(Len(original), Len(stg), Max(dl0, dl1), cs),
                   dl0, dl1, cs,
                   [bits |-> <<>>, debug_info |-> <<>>, raised |-> FALSE]))

\* cs is the source's chunk_size
decode_echo_simple(original_bytes, stego_bytes, dl0, dl1, cs) ==
    DecodeEchoArrays(read_wav_bytes(original_bytes),
                     read_wav_bytes(stego_bytes), dl0, dl1, cs)

-----------------------------------------------------------------------------
(* Inputs.                                                                 *)

\* the first n samples of the periodic buffer with period pat
Periodic(pat, n) == [k \in 1..n |-> pat[((k - 1) % Len(pat)) + 1]]

\* s with sample number p (1-based) replaced by v, when s is that long
WithSample(s, p, v) == [k \in 1..Len(s) |-> IF k = p THEN v ELSE s[k]]

\* s without its last c samples
CutEnd(s, c) == SubSeq(s, 1, Max(0, Len(s) - c))

\* NUL, "#" and "a"
LsbAlphabet == {0, Hash, 97}

\* every message of at most MaxMsgLen characters, and "a###b"
LsbMessages ==
    UNION {[1..n -> LsbAlphabet] : n \in 0..MaxMsgLen}
        \cup {<<97, Hash, Hash, Hash, 98>>}

LsbBuffers ==
    {Periodic(pat, n) : pat \in {<<0>>, <<-1>>, <<ClipLo, ClipHi, 2>>, <<1, 0, -2, 3>>},
                        n \in 0..MaxLsbSamples}

\* "", "#", "H"
EchoMessages == {<<>>, <<Hash>>, <<72>>}

\* buffer lengths around the capacity of each message
EchoLengths ==
    {(8 * (Len(m) + 3)) * ChunkSize + k : m \in EchoMessages, k \in 0..MaxDelay}
        \cup {0, ChunkSize}

\* a silent, a constant and two varied buffers of each length, the varied
\* ones with one full-scale sample
EchoBuffers ==
    {Periodic(pat, n) : pat \in {<<0>>, <<2>>}, n \in EchoLengths}
        \cup {WithSample(Periodic(<<3, -2, 1>>, n), 2, ClipHi) : n \in EchoLengths}
        \cup {WithSample(Periodic(<<3, -2, 1>>, n), 3, ClipLo) : n \in EchoLengths}

\* 0.5 and 0.75
Alphas == {2, 3}

Delays == 1..MaxDelay

-----------------------------------------------------------------------------
(* The application: an encode tab and a decode tab.                        *)

InitCommon ==
    /\ stego = None
    /\ orig_file = <<>>
    /\ stego_file = <<>>
    /\ result = NoResult
    /\ pc = "encode"

InitLSB ==
    /\ technique = "LSB"
    /\ audio_file \in LsbBuffers
    /\ message \in LsbMessages
    /\ d0 = 1 /\ d1 = 2 /\ alpha = 2
    /\ d0_dec = 1 /\ d1_dec = 2
    /\ InitCommon

InitEcho ==
    /\ technique = "Echo Hiding"
    /\ audio_file \in EchoBuffers
    /\ message \in EchoMessages
    /\ d0 \in Delays /\ d1 \in Delays /\ alpha \in Alphas
    /\ d0_dec = d0 /\ d1_dec = d1
    /\ InitCommon

Init == InitLSB \/ InitEcho

\* if audio_file and message: stego = encode_lsb(audio_bytes, message)
EncodeLSB ==
    /\ technique = "LSB"
    /\ pc = "encode"
    /\ message # <<>>
    /\ stego' = encode_lsb(audio_file, message)
    /\ pc' = "encoded"
    /\ UNCHANGED <<technique, audio_file, message, d0, d1, alpha, orig_file,
                   stego_file, d0_dec, d1_dec, result>>

\* if audio_file and message:
\*     stego = encode_echo_simple(audio_bytes, message, d0, d1, alpha)
EncodeEcho ==
    /\ technique = "Echo Hiding"
    /\ pc = "encode"
    /\ message # <<>>
    /\ stego' = encode_echo_simple(audio_file, message, d0, d1, alpha, ChunkSize)
    /\ pc' = "encoded"
    /\ UNCHANGED <<technique, audio_file, message, d0, d1, alpha, orig_file,
                   stego_file, d0_dec, d1_dec, result>>

\* the downloaded stego audio is uploaded to the LSB decoder
UploadStegoLSB ==
    /\ technique = "LSB"
    /\ pc = "encoded"
    /\ ~stego.none
    /\ stego_file' = stego.samples
    /\ pc' = "decode"
    /\ UNCHANGED <<technique, audio_file, message, d0, d1, alpha, stego,
                   orig_file, d0_dec, d1_dec, result>>

\* a file that never went through the encoder is uploaded to the LSB decoder
UploadPlainLSB ==
    /\ technique = "LSB"
    /\ pc = "encode"
    /\ stego_file' = audio_file
    /\ pc' = "decode"
    /\ UNCHANGED <<technique, audio_file, message, d0, d1, alpha, stego,
                   orig_file, d0_dec, d1_dec, result>>

\* the original and the downloaded stego audio are uploaded to the echo
\* decoder, one of them possibly cut short
UploadStegoEcho ==
    /\ technique = "Echo Hiding"
    /\ pc = "encoded"
    /\ ~stego.none
    /\ \E ca \in 0..MaxCut, cb \in 0..MaxCut :
          /\ ca = 0 \/ cb = 0
          /\ orig_file' = CutEnd(audio_file, ca)
          /\ stego_file' = CutEnd(stego.samples, cb)
    /\ pc' = "decode"
    /\ UNCHANGED <<technique, audio_file, message, d0, d1, alpha, stego,
                   d0_dec, d1_dec, result>>

\* the same never-embedded file is uploaded as original and as stego audio
UploadPlainEcho ==
    /\ technique = "Echo Hiding"
    /\ pc = "encode"
    /\ orig_file' = audio_file
    /\ stego_file' = audio_file
    /\ pc' = "decode"
    /\ UNCHANGED <<technique, audio_file, message, d0, d1, alpha, stego,
                   d0_dec, d1_dec, result>>

\* result = decode_lsb(stego_file.read())
DecodeLSB ==
    /\ technique = "LSB"
    /\ pc = "decode"
    /\ result' = [NoResult EXCEPT !.message = decode_lsb(stego_file)]
    /\ pc' = "decoded"
    /\ UNCHANGED <<technique, audio_file, message, d0, d1, alpha, stego,
                   orig_file, stego_file, d0_dec, d1_dec>>

\* result, debug_info, bits = decode_echo_simple(orig, stego, d0_dec, d1_dec)
DecodeEcho ==
    /\ technique = "Echo Hiding"
    /\ pc = "decode"
    /\ result' = decode_echo_simple(orig_file, stego_file, d0_dec, d1_dec, ChunkSize)
    /\ pc' = "decoded"
    /\ UNCHANGED <<technique, audio_file, message, d0, d1, alpha, stego,
                   orig_file, stego_file, d0_dec, d1_dec>>

NextLSB == EncodeLSB \/ UploadStegoLSB \/ UploadPlainLSB \/ DecodeLSB

NextEcho == EncodeEcho \/ UploadStegoEcho \/ UploadPlainEcho \/ DecodeEcho

Next == NextLSB \/ NextEcho

\* both techniques
Spec == Init /\ [][Next]_vars

\* the LSB technique alone
SpecLSB == InitLSB /\ [][NextLSB]_vars

\* the echo technique alone
SpecEcho == InitEcho /\ [][NextEcho]_vars

-----------------------------------------------------------------------------
(* Properties.                                                             *)

\* 8 * (len(m) + 3): the number of bits of message + "###"
FramedBits == 8 * (Len(message) + 3)

IsAscii(msg) == \A k \in 1..Len(msg) : msg[k] \in 0..127

NonSilent(buf) == \E k \in 1..Len(buf) : buf[k] # 0

AllZero(buf) == \A k \in 1..Len(buf) : buf[k] = 0

\* "###" occurs in msg
ContainsTerminator(msg) ==
    \E k \in 1..(Len(msg) - 2) : SubSeq(msg, k, k + 2) = Terminator

\* the LSB decoder has run on what the LSB encoder returned
LsbRoundTripDone ==
    /\ technique = "LSB"
    /\ pc = "decoded"
    /\ ~stego.none
    /\ stego_file = stego.samples

\* the echo decoder has run on the original and on what the echo encoder
\* returned for it, with the encoder's delays
EchoRoundTripDone ==
    /\ technique = "Echo Hiding"
    /\ pc = "decoded"
    /\ ~stego.none
    /\ orig_file = audio_file
    /\ stego_file = stego.samples
    /\ d0_dec = d0 /\ d1_dec = d1

\* C1: LSB round-trip.  For every ASCII message m (codes 0..127, any content)
\* with 8*(len(m)+3) <= number of samples, decode_lsb of encode_lsb(buffer, m)
\* returns exactly m.
C1_LsbRoundTrip ==
    (LsbRoundTripDone /\ IsAscii(message) /\ FramedBits <= Len(audio_file))
        => result.message = message

\* C2: sentinel non-ambiguity.  A message that contains "###" inside its body
\* is decoded by decode_lsb, after encode_lsb, to the literal original message.
C2_SentinelInBody ==
    (LsbRoundTripDone /\ ContainsTerminator(message))
        => result.message = message

\* C3: LSB capacity boundary.  encode_lsb returns None exactly when the
\* number of framed bits exceeds the number of samples: it succeeds when the
\* two are equal and returns None with one sample less.
C3_LsbCapacity ==
    (technique = "LSB" /\ pc = "encoded")
        => (stego.none <=> FramedBits > Len(audio_file))

\* C3 witness: a message whose framed bits exactly fill the buffer was encoded
C3_Witness ==
    /\ technique = "LSB" /\ pc = "encoded"
    /\ ~stego.none
    /\ FramedBits = Len(audio_file)

\* the upper 15 bits and the lowest bit of the 16-bit pattern of a sample
Upper15(x) == (x % 65536) \div 2
Lowest(x) == (x % 65536) % 2

LsbFrame(inp, out, mbits) ==
    /\ Len(out) = Len(inp)
    /\ \A k \in 1..Len(inp) :
          IF k <= Len(mbits)
          THEN Upper15(out[k]) = Upper15(inp[k]) /\ Lowest(out[k]) = mbits[k]
          ELSE out[k] = inp[k]

\* C4: LSB untouched bits.  After a successful encode_lsb the output is as
\* long as the input; every sample that carries a bit keeps its upper 15 bits
\* and has that bit as its lowest bit; every later sample is unchanged.
C4_LsbUntouchedBits ==
    (technique = "LSB" /\ pc = "encoded" /\ ~stego.none)
        => LsbFrame(audio_file, stego.samples, MessageBits(message \o Terminator))

\* C4 witness: a negative sample had its lowest bit changed, and samples
\* beyond the embedded bits exist
C4_Witness ==
    /\ technique = "LSB" /\ pc = "encoded" /\ ~stego.none
    /\ Len(audio_file) > FramedBits
    /\ \E k \in 1..FramedBits :
          audio_file[k] < 0 /\ stego.samples[k] # audio_file[k]

\* C5: echo round-trip.  For every original buffer that is not all-zero,
\* every message of characters 1..127, delays d0 # d1 and alpha >= 0.3 that
\* pass the capacity check, decode_echo_simple of the original and the
\* encoded buffer returns the message.
C5_EchoRoundTrip ==
    (/\ EchoRoundTripDone
     /\ NonSilent(audio_file)
     /\ \A k \in 1..Len(message) : message[k] \in 1..127
     /\ d0 # d1
     /\ 10 * alpha >= 3 * AlphaDen)
        => result.message = message

\* the 2-character message, 50,000-sample buffer of the capacity example
Example50000 == [k \in 1..50000 |-> 0]
ExampleRejected ==
    encode_echo_simple(Example50000, <<72, 73>>, 200, 400, 2, chunk_size).none

\* C6: echo capacity boundary.  encode_echo_simple returns None exactly when
\* len(bits) * chunk_size + max(d0, d1) exceeds the number of samples, and
\* succeeds when the two are equal; a 2-character message with d0 = 200,
\* d1 = 400, chunk_size = 8192 on 50,000 samples is rejected.
C6_EchoCapacity ==
    /\ (technique = "Echo Hiding" /\ pc = "encoded")
          => (stego.none <=>
                 FramedBits * ChunkSize + Max(d0, d1) > Len(audio_file))
    /\ ExampleRejected

\* C6 witness: a message that exactly fills the buffer was encoded
C6_Witness ==
    /\ technique = "Echo Hiding" /\ pc = "encoded"
    /\ ~stego.none
    /\ FramedBits * ChunkSize + Max(d0, d1) = Len(audio_file)

\* C7: Not-Found on never-embedded input.  decode_lsb of an all-zero buffer
\* returns "No hidden message found"; decode_echo_simple of a buffer against
\* itself decides bit 0 for every chunk and returns "No hidden message found".
C7_NotFound ==
    /\ (technique = "LSB" /\ pc = "decoded" /\ AllZero(stego_file))
          => result.message = NoHiddenMessageFound
    /\ (technique = "Echo Hiding" /\ pc = "decoded" /\ orig_file = stego_file)
          => /\ \A k \in 1..Len(result.bits) : result.bits[k] = 0
             /\ result.message = NoHiddenMessageFound

\* C7 witness: a non-silent buffer was decoded against itself, and enough
\* chunks for a whole framed message were decided
C7_Witness ==
    /\ technique = "Echo Hiding" /\ pc = "decoded"
    /\ orig_file = stego_file
    /\ NonSilent(orig_file)
    /\ Len(result.bits) >= 24

\* out and inp agree from sample number from + 1 (1-based) on
SameFrom(inp, out, from) ==
    /\ Len(out) = Len(inp)
    /\ \A k \in (from + 1)..Len(inp) : out[k] = inp[k]

\* C8 as stated: after a successful echo encode of n bits, every output
\* sample at index >= n * chunk_size equals the input sample.
C8_UnmodifiedBeyondLastChunk ==
    (technique = "Echo Hiding" /\ pc = "encoded" /\ ~stego.none)
        => SameFrom(audio_file, stego.samples, FramedBits * ChunkSize)

\* C8 amended: after a successful echo encode of n bits, every output sample
\* at index >= n * chunk_size + max(d0, d1) equals the input sample (the echo
\* of the last chunk reaches up to max(d0, d1) samples past the last chunk).
C8_UnmodifiedBeyondLastEcho ==
    (technique = "Echo Hiding" /\ pc = "encoded" /\ ~stego.none)
        => SameFrom(audio_file, stego.samples,
                    FramedBits * ChunkSize + Max(d0, d1))

\* C8 witness: the echo of the last chunk changed a sample past the last
\* chunk, and samples past that echo exist
C8_Witness ==
    /\ technique = "Echo Hiding" /\ pc = "encoded" /\ ~stego.none
    /\ Len(audio_file) > FramedBits * ChunkSize + Max(d0, d1)
    /\ \E k \in (FramedBits * ChunkSize + 1)..(FramedBits * ChunkSize + Max(d0, d1)) :
          stego.samples[k] # audio_file[k]

\* the first n elements
Take(s, n) == SubSeq(s, 1, Min(n, Len(s)))

\* the decoder's result on both files cut to the shorter length
TruncatedResult(orig, stg, dl0, dl1) ==
    decode_echo_simple(Take(orig, Min(Len(orig), Len(stg))),
                       Take(stg, Min(Len(orig), Len(stg))), dl0, dl1, ChunkSize)

\* floor((L - max_delay) / chunk_size) when positive, else 0
ExpectedChunks(norig, nstego, dl0, dl1) ==
    IF Min(norig, nstego) - Max(dl0, dl1) >= ChunkSize
    THEN (Min(norig, nstego) - Max(dl0, dl1)) \div ChunkSize
    ELSE 0

\* C9: echo decode length leniency.  For files of any lengths the decoder
\* does not fail; it decides floor((L - max(d0, d1)) / chunk_size) bits for
\* L the shorter length (none when that is not positive), one diagnostic
\* entry per bit, and returns what it returns on both files cut to L.
C9_LengthLeniency ==
    (technique = "Echo Hiding" /\ pc = "decoded")
        => /\ ~result.raised
           /\ Len(result.bits) =
                 ExpectedChunks(Len(orig_file), Len(stego_file), d0_dec, d1_dec)
           /\ Len(result.debug_info) = Len(result.bits)
           /\ result = TruncatedResult(orig_file, stego_file, d0_dec, d1_dec)

\* C9 witness: files of different lengths were decoded and bits were decided
C9_Witness ==
    /\ technique = "Echo Hiding" /\ pc = "decoded"
    /\ Len(orig_file) # Len(stego_file)
    /\ Len(result.bits) > 0
    /\ ~result.raised

\* the sum of the echoes that land on sample number k (1-based), each the
\* attenuated original sample of a full chunk, over the bits from index i on;
\* in units of 1/AlphaDen
RECURSIVE EchoesAt(_, _, _, _, _, _, _, _)
EchoesAt(inp, mbits, k, i, dl0, dl1, al, cs) ==
    IF i >= Len(mbits) THEN 0
    ELSE (IF /\ i * cs + (IF mbits[i + 1] = 1 THEN dl1 ELSE dl0) < k
             /\ k <= i * cs + (IF mbits[i + 1] = 1 THEN dl1 ELSE dl0) + cs
          THEN al * inp[k - (IF mbits[i + 1] = 1 THEN dl1 ELSE dl0)]
          ELSE 0)
         + EchoesAt(inp, mbits, k, i + 1, dl0, dl1, al, cs)

\* x, in units of 1/AlphaDen, limited to -32768..32767 and cut to a whole
\* number towards zero
ToInt16(x) ==
    IF x <= -32768 * AlphaDen THEN -32768
    ELSE IF x >= 32767 * AlphaDen THEN 32767
    ELSE IF x >= 0 THEN x \div AlphaDen ELSE -((-x) \div AlphaDen)

\* the input plus one full-length echo per bit, as 16-bit samples
FullEchoes(inp, mbits, dl0, dl1, al, cs) ==
    [k \in 1..Len(inp) |->
        ToInt16(inp[k] * AlphaDen + EchoesAt(inp, mbits, k, 0, dl0, dl1, al, cs))]

\* every chunk window of the n bits is full and its echo lies in the buffer
FullWindows(nbits, mbits, n, dl0, dl1, cs) ==
    \A i \in 0..(nbits - 1) :
        /\ Min(i * cs + cs, n - Max(dl0, dl1)) = i * cs + cs
        /\ i * cs + (IF mbits[i + 1] = 1 THEN dl1 ELSE dl0) + cs <= n

\* C10: no bit is dropped by the echo encoder.  Whenever the capacity check
\* passes, every bit's chunk window is the full chunk and its echo
\* destination lies inside the buffer, so exactly len(bits) full-length
\* echoes of the original samples are added.
C10_NoBitDropped ==
    (technique = "Echo Hiding" /\ pc = "encoded" /\ ~stego.none)
        => /\ FullWindows(FramedBits, MessageBits(message \o Terminator),
                          Len(audio_file), d0, d1, ChunkSize)
           /\ stego.samples =
                 FullEchoes(audio_file, MessageBits(message \o Terminator),
                            d0, d1, alpha, ChunkSize)

\* C10 witness: a non-silent buffer that the message exactly fills was
\* encoded with two different delays, and the output differs from the input
C10_Witness ==
    /\ technique = "Echo Hiding" /\ pc = "encoded" /\ ~stego.none
    /\ d0 # d1
    /\ Len(audio_file) = FramedBits * ChunkSize + Max(d0, d1)
    /\ stego.samples # audio_file

=============================================================================
